---- MODULE Spec2Model ----
(***************************************************************************)
(* A model of src/ray_bundle.py: the RayBundle container (setters,         *)
(* getters, __add__, empty_bund) and the disk source sampler               *)
(* solar_disk_bundle.                                                      *)
(*                                                                         *)
(* Arrays.  A 3 x n numpy array is the sequence of its n columns, each a   *)
(* 3-tuple; a 1-D array of n scalars is a sequence of length n.  Numbers   *)
(* are integers: coordinates lie on an integer grid and angles are whole   *)
(* quarter turns, for which sine and cosine are integers.                  *)
(*                                                                         *)
(* Attributes.  RayBundle has no __init__, so an attribute that was never  *)
(* assigned does not exist and reading it raises AttributeError.  An       *)
(* attribute is modelled as None (absent) or Some(value).                  *)
(***************************************************************************)
EXTENDS Integers, Sequences, FiniteSets, TLC

\* ------------------------------------------------------------------ bounds
\* Longest array handed to a setter or held by an operand of __add__.
MaxLen == 2
\* Largest num_rays handed to solar_disk_bundle.
MaxRays == 2
\* Largest radius handed to solar_disk_bundle.
MaxRadius == 1

\* ------------------------------------------------------------ value domains
Points == {<<0, 0, 0>>, <<1, 2, 3>>}
Cosines == {<<0, 0, 1>>, <<1, 0, 0>>}
Energies == {1, 2}

ArraysOf(S, n) == [1..n -> S]
ArraysUpTo(S, m) == UNION {ArraysOf(S, n) : n \in 0..m}

\* -------------------------------------------------------------- attributes
None == <<>>
Some(a) == <<a>>
IsSet(f) == f # None
Val(f) == f[1]

\* ------------------------------------------------------------------- numpy
\* .shape of a 3 x n array held as n columns, and of a 1-D array.
shape2(a) == <<3, Len(a)>>
shape1(e) == <<Len(e)>>
\* N.hstack of two arrays: concatenation along the ray axis.
hstack_swapped(a, b) == b \o a
hstack(a, b) == a \o b

\* --------------------------------------------------------------- RayBundle
\* Outcome of a method call: the object afterwards and the exception raised.
Ok(b) == [bund |-> b, exc |-> "none"]
Raise(b, e) == [bund |-> b, exc |-> e]
\* Outcome of a call that returns a value.
Ret(v) == [ret |-> Some(v), exc |-> "none"]
Fail(e) == [ret |-> None, exc |-> e]

\* RayBundle(): a fresh object with no attribute assigned.
RayBundle_new == [vertices |-> None, direct |-> None, energy |-> None]

set_vertices(b, vert) == Ok([b EXCEPT !.vertices = Some(vert)])

get_vertices(b) ==
    IF IsSet(b.vertices) THEN Ret(Val(b.vertices)) ELSE Fail("AttributeError")

get_num_rays(b) ==
    IF IsSet(b.vertices) THEN Ret(shape2(Val(b.vertices))[2])
    ELSE Fail("AttributeError")

set_directions_unchecked(b, directions) ==
    Ok([b EXCEPT !.direct = Some(directions)])

set_directions(b, directions) ==
    LET n == get_num_rays(b) IN
    IF n.exc # "none" THEN Raise(b, n.exc)
    ELSE IF shape2(directions) # <<3, Val(n.ret)>> THEN Raise(b, "ValueError")
    ELSE Ok([b EXCEPT !.direct = Some(directions)])

get_directions(b) ==
    IF IsSet(b.direct) THEN Ret(Val(b.direct)) ELSE Fail("AttributeError")

set_energy(b, energy) ==
    LET n == get_num_rays(b) IN
    IF n.exc # "none" THEN Raise(b, n.exc)
    ELSE IF shape1(energy) # <<Val(n.ret)>> THEN Raise(b, "ValueError")
    ELSE Ok([b EXCEPT !.energy = Some(energy)])

get_energy(b) ==
    IF IsSet(b.energy) THEN Ret(Val(b.energy)) ELSE Fail("AttributeError")

\* __add__: every argument is evaluated before the setter it feeds, and the
\* first exception ends the call with no bundle returned.
RayBundle_add(self, added) ==
    LET v1 == get_vertices(self)
        v2 == get_vertices(added)
        d1 == get_directions(self)
        d2 == get_directions(added)
        e1 == get_energy(self)
        e2 == get_energy(added)
    IN  IF v1.exc # "none" THEN Fail(v1.exc)
        ELSE IF v2.exc # "none" THEN Fail(v2.exc)
        ELSE LET s1 == set_vertices(RayBundle_new, hstack(Val(v1.ret), Val(v2.ret))) IN
        IF d1.exc # "none" THEN Fail(d1.exc)
        ELSE IF d2.exc # "none" THEN Fail(d2.exc)
        ELSE LET s2 == set_directions(s1.bund, hstack(Val(d1.ret), Val(d2.ret))) IN
        IF s2.exc # "none" THEN Fail(s2.exc)
        ELSE IF e1.exc # "none" THEN Fail(e1.exc)
        ELSE IF e2.exc # "none" THEN Fail(e2.exc)
        ELSE LET s3 == set_energy(s2.bund, hstack(Val(e1.ret), Val(e2.ret))) IN
        IF s3.exc # "none" THEN Fail(s3.exc)
        ELSE Ret(s3.bund)

\* N.array([[],[],[]]) has shape (3, 0); N.array([]) has shape (0,).
empty_bund_no_energy ==
    LET s1 == set_vertices(RayBundle_new, <<>>)
        s2 == set_directions(s1.bund, <<>>)
    IN  IF s2.exc # "none" THEN Fail(s2.exc) ELSE Ret(s2.bund)

empty_bund ==
    LET s1 == set_vertices(RayBundle_new, <<>>)
        s2 == set_directions(s1.bund, <<>>)
        s3 == set_energy(s2.bund, <<>>)
    IN  IF s2.exc # "none" THEN Fail(s2.exc)
        ELSE IF s3.exc # "none" THEN Fail(s3.exc)
        ELSE Ret(s3.bund)


\* ------------------------------------------------------- vectors and frames
Zero3 == <<0, 0, 0>>
add3(u, v) == <<u[1] + v[1], u[2] + v[2], u[3] + v[3]>>
scale3(k, v) == <<k * v[1], k * v[2], k * v[3]>>
dot3(u, v) == u[1] * v[1] + u[2] * v[2] + u[3] * v[3]
\* N.cross(u, v)
cross(u, v) ==
    <<u[2] * v[3] - u[3] * v[2], u[3] * v[1] - u[1] * v[3], u[1] * v[2] - u[2] * v[1]>>
\* N.dot(m, v) for a matrix given by its three rows.
matvec(m, v) == <<dot3(m[1], v), dot3(m[2], v), dot3(m[3], v)>>
\* N.dot(m.T, v): the transposed matrix applied to v.
matTvec(m, v) == add3(add3(scale3(v[1], m[1]), scale3(v[2], m[2])), scale3(v[3], m[3]))

\* Cosine and sine of q quarter turns.
cos4(q) == <<1, 0, -1, 0>>[(q % 4) + 1]
sin4(q) == <<0, 1, 0, -1>>[(q % 4) + 1]

\* spatial_geometry.general_axis_rotation(axis, angle) applied to v: the
\* rotation about axis by angle (right-hand rule),
\*   (axis axis^T)(1 - cos) + I cos + [axis]_x sin.
general_axis_rotation(axis, angle, v) ==
    add3(add3(scale3(dot3(axis, v) * (1 - cos4(angle)), axis),
              scale3(cos4(angle), v)),
         scale3(sin4(angle), cross(axis, v)))

\* random.uniform(low, high): the values a draw is taken from, the lower end
\* and the midpoint of [low, high).  uniform(c, c) is c.
uniform(low, high) == {low, (low + high) \div 2}

\* ------------------------------------------------------- solar_disk_bundle
Centers == {<<0, 0, 0>>, <<1, 2, 3>>}
\* Unit vectors along the axes, and the zero vector a caller may pass.
Directions == {<<1, 0, 0>>, <<0, 1, 0>>, <<0, 0, 1>>, Zero3}
\* ang_range in quarter turns; a full turn is 4.
AngRanges == {0, 2}
FullTurn == 4

\* The energy per ray a caller of solar_disk_bundle assigns.
CallerEnergies == {1}

\* Content of a slot of N.empty() that was never written.
Uninit == "uninitialised"

\* perp = (direction[1], -direction[0], 0), or (1, 0, 0) when that is zero.
perp_of(direction) ==
    LET p == <<direction[2], -direction[1], 0>> IN
    IF p = Zero3 THEN <<1, 0, 0>> ELSE p

\* The per-ray loop filling directions = N.empty((3, num_rays)).
make_directions(n, direction, perp, theta, phi) ==
    [ray \in 1..n |->
        general_axis_rotation(direction, phi[ray],
            general_axis_rotation(perp, theta[ray], direction))]

any(mask) == \E i \in DOMAIN mask : mask[i]
count(mask) == Cardinality({i \in DOMAIN mask : mask[i]})
rank(mask, i) == Cardinality({j \in 1..i : mask[j]})

\* xs**2 + ys**2 > radius**2, element-wise.
not_inside_all_coords(xs, ys, radius) ==
    [i \in DOMAIN xs |-> xs[i] * xs[i] > radius * radius /\ ys[i] * ys[i] > radius * radius]

not_inside_of(xs, ys, radius) ==
    [i \in DOMAIN xs |-> xs[i] * xs[i] + ys[i] * ys[i] > radius * radius]

\* a[mask] = values when numpy accepts the assignment: the masked slots take
\* the leading values in order, the other slots keep theirs.
mask_assign(a, mask, values) ==
    [i \in DOMAIN a |-> IF mask[i] THEN values[rank(mask, i)] ELSE a[i]]

\* Whether a[mask] = values is a plain assignment: as many values as masked
\* slots, or one value to broadcast.
fits(mask, values) == Len(values) = count(mask) \/ Len(values) = 1

\* rot = vstack((perp, cross(direction, perp), direction)); vertices_global =
\* dot(rot, [xs, ys, 0]); the vertices are vertices_global + center, center
\* being a column.
embed_transposed(xs, ys, perp, direction, center) ==
    LET rot == <<perp, cross(direction, perp), direction>> IN
    [i \in DOMAIN xs |-> add3(matTvec(rot, <<xs[i], ys[i], 0>>), center)]

embed(xs, ys, perp, direction, center) ==
    LET rot == <<perp, cross(direction, perp), direction>> IN
    [i \in DOMAIN xs |-> add3(matvec(rot, <<xs[i], ys[i], 0>>), center)]

\* rayb = RayBundle(); rayb.set_vertices(...); rayb.set_directions(...);
\* return rayb
assemble_with_energy(vertices, directions) ==
    LET s1 == set_vertices(RayBundle_new, vertices)
        s2 == set_directions(s1.bund, directions)
        s3 == set_energy(s2.bund, [i \in DOMAIN vertices |-> 0])
    IN  IF s2.exc # "none" THEN Fail(s2.exc) ELSE Ret(s3.bund)

assemble(vertices, directions) ==
    LET s1 == set_vertices(RayBundle_new, vertices)
        s2 == set_directions(s1.bund, directions)
    IN  IF s2.exc # "none" THEN Fail(s2.exc) ELSE Ret(s2.bund)


\* ==================================================================== state
VARIABLES
    bund,          \* the RayBundle the setters are called on
    call,          \* the latest setter call: its name, argument, outcome, and
                   \* the bundle as it was before the call
    opA, opB,      \* the operands of __add__
    res,           \* the latest __add__ / empty_bund call and what it returned
    legacy_numpy,  \* the numpy build: whether a[mask] = values silently drops
                   \* surplus values (old releases) or raises ValueError
    gen_pc,        \* solar_disk_bundle: "idle", "loop", "returned", "raised"
    args,          \* its arguments num_rays, center, direction, radius
    perp, directions, xs, ys, not_inside,   \* its locals
    iter,          \* the latest pass of the rejection loop: whether one ran,
                   \* how many rays were marked not-inside when it began, how
                   \* many candidates it drew, whether accepted rays kept
                   \* their coordinates
    rayb,          \* the bundle solar_disk_bundle returned, if any
    caller_set,    \* whether the caller has set the energy of rayb
    got            \* the outcome of the caller's latest get_energy on rayb

bundle_vars == <<bund, call>>
concat_vars == <<opA, opB, res>>
gen_vars == <<legacy_numpy, gen_pc, args, perp, directions, xs, ys, not_inside,
              iter, rayb, caller_set, got>>
vars == <<bundle_vars, concat_vars, gen_vars>>

NoCall == [op |-> "none", arg |-> <<>>, exc |-> "none", before |-> RayBundle_new]
NoRes == [op |-> "none", ret |-> None, exc |-> "none"]
NoIter == [ran |-> FALSE, rejected |-> 0, drawn |-> 0, kept |-> TRUE]
NoArgs == [num_rays |-> 0, center |-> Zero3, direction |-> Zero3, radius |-> 0]

BundleIdle == bund = RayBundle_new /\ call = NoCall
ConcatIdle == opA = RayBundle_new /\ opB = RayBundle_new /\ res = NoRes
GenIdle ==
    /\ legacy_numpy = FALSE /\ gen_pc = "idle" /\ args = NoArgs
    /\ perp = Zero3 /\ directions = <<>> /\ xs = <<>> /\ ys = <<>>
    /\ not_inside = <<>> /\ iter = NoIter /\ rayb = None
    /\ caller_set = FALSE /\ got = None

\* ------------------------------------------------- setters on one RayBundle
Setter(op, arg, out) ==
    /\ call' = [op |-> op, arg |-> arg, exc |-> out.exc, before |-> bund]
    /\ bund' = out.bund
    /\ UNCHANGED <<concat_vars, gen_vars>>

SetVertices == \E v \in ArraysUpTo(Points, MaxLen) :
    Setter("set_vertices", v, set_vertices(bund, v))

SetDirections == \E d \in ArraysUpTo(Cosines, MaxLen) :
    Setter("set_directions", d, set_directions(bund, d))

SetEnergy == \E e \in ArraysUpTo(Energies, MaxLen) :
    Setter("set_energy", e, set_energy(bund, e))

InitBundle == BundleIdle /\ ConcatIdle /\ GenIdle
NextBundle == SetVertices \/ SetDirections \/ SetEnergy
SpecBundle == InitBundle /\ [][NextBundle]_vars

\* --------------------------------------------------- __add__ and empty_bund
\* Bundles of n rays a caller can have built: each attribute absent or an
\* array of n entries.
Built(n) ==
    [vertices : {None} \cup {Some(a) : a \in ArraysOf(Points, n)},
     direct : {None} \cup {Some(a) : a \in ArraysOf(Cosines, n)},
     energy : {None} \cup {Some(a) : a \in ArraysOf(Energies, n)}]
Operands == UNION {Built(n) : n \in 0..MaxLen}

Result(op, out) ==
    /\ res' = [op |-> op, ret |-> out.ret, exc |-> out.exc]
    /\ UNCHANGED <<opA, opB, bundle_vars, gen_vars>>

Add == Result("add", RayBundle_add(opA, opB))

Empty == Result("empty", empty_bund)

\* empty_bund() + opA
EmptyAdd ==
    LET e == empty_bund IN
    Result("empty_add", IF e.exc # "none" THEN e ELSE RayBundle_add(Val(e.ret), opA))

InitConcat ==
    /\ opA \in Operands /\ opB \in Operands /\ res = NoRes
    /\ BundleIdle /\ GenIdle
NextConcat == Add \/ Empty \/ EmptyAdd
SpecConcat == InitConcat /\ [][NextConcat]_vars

\* ------------------------------------------------------- solar_disk_bundle
\* Lines 82-99: the angular draws, perp, the directions, and the locals of
\* the rejection loop.
Generate ==
    /\ gen_pc = "idle"
    /\ \E n \in 0..MaxRays, c \in Centers, d \in Directions,
          r \in 0..MaxRadius, ang_range \in AngRanges :
       \E phi \in ArraysOf(uniform(0, FullTurn), n),
          theta \in ArraysOf(uniform(0, ang_range), n) :
         /\ args' = [num_rays |-> n, center |-> c, direction |-> d, radius |-> r]
         /\ perp' = perp_of(d)
         /\ directions' = make_directions(n, d, perp_of(d), theta, phi)
         /\ not_inside' = [i \in 1..n |-> TRUE]
         /\ xs' = [i \in 1..n |-> Uninit]
         /\ ys' = [i \in 1..n |-> Uninit]
    /\ gen_pc' = "loop"
    /\ UNCHANGED <<legacy_numpy, iter, rayb, caller_set, got, bundle_vars, concat_vars>>

\* Lines 100-103, one pass of the while loop.  Each uniform() call draws
\* len(not_inside) values.  When that differs from the number of masked
\* slots, an old numpy keeps the leading values and a current one raises
\* ValueError at the first assignment.
LoopPass ==
    /\ gen_pc = "loop"
    /\ any(not_inside)
    /\ \E dx \in ArraysOf(uniform(-args.radius, args.radius), Len(not_inside)),
          dy \in ArraysOf(uniform(-args.radius, args.radius), Len(not_inside)) :
         IF fits(not_inside, dx) \/ legacy_numpy
         THEN /\ xs' = mask_assign(xs, not_inside, dx)
              /\ ys' = mask_assign(ys, not_inside, dy)
              /\ not_inside' = not_inside_of(xs', ys', args.radius)
              /\ iter' = [ran |-> TRUE, rejected |-> count(not_inside),
                          drawn |-> Len(dx),
                          kept |-> \A i \in DOMAIN xs : ~not_inside[i] =>
                                      xs'[i] = xs[i] /\ ys'[i] = ys[i]]
              /\ gen_pc' = "loop"
         ELSE /\ iter' = [ran |-> TRUE, rejected |-> count(not_inside),
                          drawn |-> Len(dx), kept |-> TRUE]
              /\ gen_pc' = "raised"
              /\ UNCHANGED <<xs, ys, not_inside>>
    /\ UNCHANGED <<legacy_numpy, args, perp, directions, rayb, caller_set, got,
                   bundle_vars, concat_vars>>

\* Lines 105-113: the loop is over; embed the points and build the bundle.
Return ==
    /\ gen_pc = "loop"
    /\ ~any(not_inside)
    /\ LET out == assemble(embed(xs, ys, perp, args.direction, args.center), directions)
       IN  /\ rayb' = out.ret
           /\ gen_pc' = IF out.exc = "none" THEN "returned" ELSE "raised"
    /\ UNCHANGED <<legacy_numpy, args, perp, directions, xs, ys, not_inside, iter,
                   caller_set, got, bundle_vars, concat_vars>>

\* The caller of solar_disk_bundle reads the energy of the result.
CallerGetEnergy ==
    /\ gen_pc = "returned"
    /\ got' = Some(get_energy(Val(rayb)))
    /\ UNCHANGED <<legacy_numpy, gen_pc, args, perp, directions, xs, ys, not_inside,
                   iter, rayb, caller_set, bundle_vars, concat_vars>>

\* The caller of solar_disk_bundle sets the energy of the result.
CallerSetEnergy ==
    /\ gen_pc = "returned"
    /\ \E e \in ArraysUpTo(CallerEnergies, MaxRays) :
         LET out == set_energy(Val(rayb), e) IN
         /\ rayb' = Some(out.bund)
         /\ caller_set' = (caller_set \/ out.exc = "none")
    /\ UNCHANGED <<legacy_numpy, gen_pc, args, perp, directions, xs, ys, not_inside,
                   iter, got, bundle_vars, concat_vars>>

InitGen ==
    /\ legacy_numpy \in BOOLEAN
    /\ gen_pc = "idle" /\ args = NoArgs
    /\ perp = Zero3 /\ directions = <<>> /\ xs = <<>> /\ ys = <<>>
    /\ not_inside = <<>> /\ iter = NoIter /\ rayb = None
    /\ caller_set = FALSE /\ got = None
    /\ BundleIdle /\ ConcatIdle
NextGen == Generate \/ LoopPass \/ Return \/ CallerGetEnergy \/ CallerSetEnergy
SpecGen == InitGen /\ [][NextGen]_vars


\* =================================================================== claims
\* A bundle with vertices, directions and energy set, all of the same count.
Populated(b) ==
    /\ IsSet(b.vertices) /\ IsSet(b.direct) /\ IsSet(b.energy)
    /\ Len(Val(b.direct)) = Len(Val(b.vertices))
    /\ Len(Val(b.energy)) = Len(Val(b.vertices))

\* C1: after any sequence of set_vertices, set_directions and set_energy
\* calls, whenever directions and energy are both set, directions, energy
\* and vertices all hold the same number of rays.
C1_EqualRayCounts ==
    (IsSet(bund.direct) /\ IsSet(bund.energy)) =>
        /\ IsSet(bund.vertices)
        /\ Len(Val(bund.direct)) = Len(Val(bund.vertices))
        /\ Len(Val(bund.energy)) = Len(Val(bund.vertices))

\* C2: set_directions and set_energy succeed exactly when the argument holds
\* as many rays as the vertices do; the getter then returns the argument.  In
\* every other case (another count, or no vertices yet) the call raises and
\* the bundle is exactly as it was before the call.
C2_SetterAllOrNothing ==
    call.op \in {"set_directions", "set_energy"} =>
        LET matches == /\ IsSet(call.before.vertices)
                       /\ Len(call.arg) = Len(Val(call.before.vertices))
            getter == IF call.op = "set_directions"
                      THEN get_directions(bund) ELSE get_energy(bund)
        IN  /\ (call.exc = "none") <=> matches
            /\ matches => getter = Ret(call.arg)
            /\ ~matches => bund = call.before

\* C2 witness: set_energy with a wrong count was refused on a bundle that
\* already held directions and an energy.
C2_Witness ==
    /\ call.op = "set_energy" /\ call.exc = "ValueError"
    /\ Len(call.arg) > 0
    /\ IsSet(call.before.direct) /\ IsSet(call.before.energy)

\* C3: for populated A and B, A + B is returned, holds A.num_rays +
\* B.num_rays rays, and in each of the three fields entry i is A's entry i
\* for i within A and B's entry i - A.num_rays beyond.
C3_ConcatAligned ==
    (res.op = "add" /\ Populated(opA) /\ Populated(opB)) =>
        /\ res.exc = "none"
        /\ LET r == Val(res.ret)
               nA == Len(Val(opA.vertices))
               nB == Len(Val(opB.vertices))
               Aligned(f, a, b) ==
                   /\ IsSet(f) /\ Len(Val(f)) = nA + nB
                   /\ \A i \in 1..(nA + nB) :
                        Val(f)[i] = IF i <= nA THEN Val(a)[i] ELSE Val(b)[i - nA]
           IN  /\ get_num_rays(r) = Ret(nA + nB)
               /\ Aligned(r.vertices, opA.vertices, opB.vertices)
               /\ Aligned(r.direct, opA.direct, opB.direct)
               /\ Aligned(r.energy, opA.energy, opB.energy)

\* C3 witness: two different populated, non-empty bundles were added.
C3_Witness ==
    /\ res.op = "add" /\ res.exc = "none"
    /\ Populated(opA) /\ Populated(opB) /\ opA # opB
    /\ Len(Val(opA.vertices)) > 0 /\ Len(Val(opB.vertices)) > 0

\* C4: empty_bund returns a bundle whose three fields are set and hold zero
\* rays, and empty_bund() + A is returned and equals A in all three fields
\* for every populated A.
C4_EmptyIsIdentity ==
    /\ res.op = "empty" =>
         /\ res.exc = "none"
         /\ Val(res.ret) = [vertices |-> Some(<<>>), direct |-> Some(<<>>),
                            energy |-> Some(<<>>)]
    /\ (res.op = "empty_add" /\ Populated(opA)) =>
         /\ res.exc = "none"
         /\ Val(res.ret) = opA

\* C4 witness: the empty bundle was added to a populated bundle with rays.
C4_Witness ==
    /\ res.op = "empty_add" /\ res.exc = "none"
    /\ Populated(opA) /\ Len(Val(opA.vertices)) > 0

\* C5: a bundle solar_disk_bundle returns has vertices and directions of
\* exactly num_rays rays, num_rays() equal to the requested num_rays, and no
\* energy: get_energy raises until the caller has set the energy.
C5_EnergyLeftUnset ==
    gen_pc = "returned" =>
        LET b == Val(rayb) IN
        /\ IsSet(b.vertices) /\ Len(Val(b.vertices)) = args.num_rays
        /\ IsSet(b.direct) /\ Len(Val(b.direct)) = args.num_rays
        /\ get_num_rays(b) = Ret(args.num_rays)
        /\ ~caller_set =>
             /\ ~IsSet(b.energy)
             /\ get_energy(b) = Fail("AttributeError")
             /\ got \in {None, Some(Fail("AttributeError"))}
        /\ caller_set => get_energy(b).exc = "none"

\* C5 witness: num_rays = 0 returned a bundle and get_energy on it raised.
C5_Witness ==
    /\ gen_pc = "returned" /\ args.num_rays = 0
    /\ ~caller_set /\ got = Some(Fail("AttributeError"))

\* C6: solar_disk_bundle never returns a bundle for direction = (0, 0, 0).
C6_ZeroDirectionFails ==
    gen_pc = "returned" => args.direction # Zero3

\* C7: when solar_disk_bundle returns for radius > 0, each of the num_rays
\* local points (x, y) the vertices are built from has x^2 + y^2 <= radius^2.
C7_PointsInsideDisk ==
    (gen_pc = "returned" /\ args.radius > 0) =>
        /\ Len(xs) = args.num_rays /\ Len(ys) = args.num_rays
        /\ \A i \in 1..args.num_rays :
             xs[i] * xs[i] + ys[i] * ys[i] <= args.radius * args.radius

\* C7 witness: a bundle was returned after a pass that redrew only some of
\* the rays.
C7_Witness ==
    /\ gen_pc = "returned" /\ args.radius > 0
    /\ iter.ran /\ iter.rejected < args.num_rays

\* C8: the rejection loop ends normally: called with a unit direction,
\* solar_disk_bundle never fails inside the loop, and with num_rays = 0 no
\* pass of the loop runs.
C8_LoopEndsNormally ==
    args.direction # Zero3 =>
        /\ gen_pc # "raised"
        /\ args.num_rays = 0 => ~iter.ran

\* C9: for a unit direction d, vertex i is center + x*perp + y*(d x perp),
\* with perp = (d.y, -d.x, 0) or (1, 0, 0) when that is zero; so vertex i -
\* center is orthogonal to d.
C9_DiskPerpendicularToDirection ==
    (gen_pc = "returned" /\ args.direction # Zero3) =>
        LET d == args.direction
            p0 == <<d[2], -d[1], 0>>
            p == IF p0 = Zero3 THEN <<1, 0, 0>> ELSE p0
        IN  \A i \in 1..args.num_rays :
              LET v == Val(Val(rayb).vertices)[i] IN
              /\ v = add3(args.center,
                          add3(scale3(xs[i], p), scale3(ys[i], cross(d, p))))
              /\ dot3(add3(v, scale3(-1, args.center)), d) = 0

\* C10: every pass of the rejection loop draws as many candidates as rays
\* are marked not-inside, and leaves the coordinates of accepted rays alone.
C10_RedrawsOnlyRejected ==
    (iter.ran /\ args.direction # Zero3) =>
        (iter.drawn = iter.rejected /\ iter.kept)

====
